---- MODULE Spec2Model ----
(***************************************************************************)
(* Model of package refresh (src/refresh.go): a Refresher holds an         *)
(* atomically swapped *value snapshot and refreshes it through Load, at    *)
(* most once every maxAge.  Every goroutine calling Load is a process; a   *)
(* step of a process is one access to shared state (the atomic.Value, a    *)
(* snapshot's sync.Once or refreshStale word, the clock, refreshFn).       *)
(***************************************************************************)
EXTENDS Integers, Sequences, FiniteSets, TLC

\* ------------------------------------------------------------------ bounds
NProcs == 2        \* goroutines calling Load
MaxTime == 4       \* the clock runs from 1 to MaxTime
MaxMaxAge == 1     \* New is given a maxAge in 1..MaxMaxAge

Procs == 1..NProcs
Times == 1..MaxTime

\* the error values refreshFn returns: nil or an error
Errs == {"nil", "error"}

\* the maxAge arguments New is called with: negative, zero and positive
MaxAges == (0 - 1)..MaxMaxAge

\* the refreshFn arguments New is called with: a function or nil
Fns == {"fn", "nil"}

\* ------------------------------------------------------------------ state
VARIABLES
    now,                \* the clock read by time.Now and time.Since
    maxAge,             \* Refresher.maxAge
    staleWhileRefresh,  \* Refresher.staleWhileRefresh
    shared,             \* setup is over: some goroutine has called Load
    snaps,              \* every *value allocated so far, by address
    cur,                \* Refresher.val: the address of the current *value
    called,             \* the number of refreshFn invocations begun
    began,              \* the time the latest invocation of refreshFn began
    returned,           \* the (val, err) pairs refreshFn has returned
    pc,                 \* where each goroutine is in Load
    val,                \* Load's local val: the *value it read
    newVal, err, when,  \* locals of the refresh closure / loadStale
    ret,                \* the pair Load returned
    path,               \* the case of Load's switch this call took
    mine,               \* the refreshFn invocations this call made
    retOld,             \* the snapshot it returns was stale when this call read it
    retSnap,            \* the address of the snapshot whose pair it returns
    alone,              \* no other Load has been in flight during this call
    args,               \* the arguments New was called with
    refreshFn,          \* Refresher.refreshFn
    panicked,           \* the panic that ended the program, if any
    configured          \* SetStaleWhileRefresh has been called

shared_vars == <<now, maxAge, staleWhileRefresh, shared, snaps, cur, called, began, returned>>
local_vars == <<pc, val, newVal, err, when, ret>>
hist_vars == <<path, mine, retOld, retSnap, alone>>
setup_vars == <<args, refreshFn, panicked, configured>>
vars == <<shared_vars, local_vars, hist_vars, setup_vars>>

\* var testNeedsRefresh = false; only the tests of the package set it
testNeedsRefresh == FALSE

\* the zero time.Time, for which IsZero() holds
ZeroTime == 0

NoPair == [val |-> 0, err |-> "none"]

\* type value struct, with two history fields: `by`, the invocation of
\* refreshFn that built it, and `runs`, the invocations begun on its behalf
value(v, e, w, k) ==
    [val |-> v, err |-> e, when |-> w, refresh |-> "idle", refreshStale |-> 0,
     by |-> k, runs |-> 0]

\* new(value): the never computed snapshot New stores
Sentinel == value(0, "nil", ZeroTime, 0)

\* val.val, val.err
Pair(i) == [val |-> snaps[i].val, err |-> snaps[i].err]

IsZero(i) == snaps[i].when = ZeroTime

\* a comparison that lets the value expire one tick early
NotStale_Strict(i) == now - snaps[i].when < maxAge

\* time.Since(val.when) <= r.maxAge
NotStale(i) == now - snaps[i].when <= maxAge

\* a switch without the first-Load case
LoadCase_NoFirst(i) ==
    IF testNeedsRefresh THEN "fresh"
    ELSE IF NotStale(i) THEN "hit"
    ELSE IF staleWhileRefresh THEN "stale"
    ELSE "fresh"

\* a switch without the staleWhileRefresh case
LoadCase_NoPolicy(i) ==
    IF testNeedsRefresh THEN "fresh"
    ELSE IF IsZero(i) THEN "fresh"
    ELSE IF NotStale(i) THEN "hit"
    ELSE "fresh"

\* the switch of Load: the case taken for the snapshot at address i
LoadCase(i) ==
    IF testNeedsRefresh THEN "fresh"
    ELSE IF IsZero(i) THEN "fresh"
    ELSE IF NotStale(i) THEN "hit"
    ELSE IF staleWhileRefresh THEN "stale"
    ELSE "fresh"

\* val.refresh.Do(f) finds the sync.Once unused and runs f
OnceRuns(i) == snaps[i].refresh = "idle"

\* a gate that does not make its callers wait for the running closure
OncePasses_NoWait(i) == snaps[i].refresh # "idle"

\* a gate whose waiters test the sync.Once of the current value instead of
\* the one they called Do on
OncePasses_Current(i) == snaps[cur].refresh = "done"

\* val.refresh.Do(f) finds f already run to completion and returns at once;
\* while another goroutine is still inside f, Do blocks
OncePasses(i) == snaps[i].refresh = "done"

\* a claim that is not exclusive: a plain store instead of compare-and-swap
CASSucceeds_Always(i) == TRUE

\* a claim with the test inverted
CASSucceeds_Inverted(i) == snaps[i].refreshStale # 0

\* atomic.CompareAndSwapUint32(&val.refreshStale, 0, 1) succeeds
CASSucceeds(i) == snaps[i].refreshStale = 0

\* a loser that returns the pair of the current value instead of its own
StalePair_Current(p) == Pair(cur)

\* the pair loadStale returns when it loses the compare-and-swap
StalePair(p) == Pair(val[p])

\* a return of the value read before Do instead of the reloaded one
FreshPair_Read(p) == Pair(val[p])

\* a return that takes the error from the value read before Do
FreshPair_Mixed(p) == [val |-> snaps[cur].val, err |-> snaps[val[p]].err]

\* the pair loadFresh returns: that of the *value it loads after Do
FreshPair(p) == Pair(cur)

\* a store whose new value copies the Once and the flag of the old one
Stored_CopiesGate(p) ==
    Append(snaps, [value(newVal[p], err[p], when[p], newVal[p])
                      EXCEPT !.refresh = snaps[cur].refresh,
                             !.refreshStale = snaps[cur].refreshStale])

\* a store that also writes the result into the value being replaced
Stored_InPlace(p) ==
    Append([snaps EXCEPT ![cur].val = newVal[p], ![cur].err = err[p], ![cur].when = when[p]],
           value(newVal[p], err[p], when[p], newVal[p]))

\* a store that keeps the previous value when refreshFn failed
Stored_KeepOnError(p) ==
    IF err[p] = "error"
    THEN Append(snaps, value(snaps[cur].val, snaps[cur].err, snaps[cur].when, snaps[cur].by))
    ELSE Append(snaps, value(newVal[p], err[p], when[p], newVal[p]))

\* r.val.Store(&value{newVal, err, time.Now(), sync.Once{}, 0}), with
\* time.Now() already read into when[p]
Stored(p) == Append(snaps, value(newVal[p], err[p], when[p], newVal[p]))

\* the age of the snapshot at address i exceeds maxAge now
Old(i) == now - snaps[i].when > maxAge

InLoad(p) == pc[p] \notin {"idle", "done"}

\* a goroutine is inside refreshFn
InFn(p) == pc[p] \in {"freshFn", "staleFn"}

\* the panic values: none, that of New, that of a call through a nil func
NoPanic == "none"
MaxAgePanic == "refresh: maxAge must be positive duration"
NilPanic == "invalid memory address or nil pointer dereference"

\* the program runs: no panic has ended it (no caller of Load recovers)
Alive == panicked = NoPanic

\* r.refreshFn() calls a function: calling a nil func panics
CallsFn == refreshFn # "nil"

\* ------------------------------------------------------------------ New
\* a New that also rejects a nil refreshFn
New_ChecksNil(m, f) ==
    IF m <= 0 \/ f = "nil"
    THEN [panic |-> MaxAgePanic, snaps |-> <<>>, cur |-> 0,
          maxAge |-> 0, refreshFn |-> "nil", staleWhileRefresh |-> FALSE]
    ELSE [panic |-> NoPanic, snaps |-> <<Sentinel>>, cur |-> 1,
          maxAge |-> m, refreshFn |-> f, staleWhileRefresh |-> FALSE]

\* a New that rejects only a negative maxAge
New_NegativeOnly(m, f) ==
    IF m < 0
    THEN [panic |-> MaxAgePanic, snaps |-> <<>>, cur |-> 0,
          maxAge |-> 0, refreshFn |-> "nil", staleWhileRefresh |-> FALSE]
    ELSE [panic |-> NoPanic, snaps |-> <<Sentinel>>, cur |-> 1,
          maxAge |-> m, refreshFn |-> f, staleWhileRefresh |-> FALSE]

\* a New that calls refreshFn at once and stores its result
New_Eager(m, f) ==
    IF m <= 0
    THEN [panic |-> MaxAgePanic, snaps |-> <<>>, cur |-> 0,
          maxAge |-> 0, refreshFn |-> "nil", staleWhileRefresh |-> FALSE]
    ELSE [panic |-> NoPanic, snaps |-> <<Sentinel, value(1, "nil", 1, 1)>>, cur |-> 2,
          maxAge |-> m, refreshFn |-> f, staleWhileRefresh |-> FALSE]

\* New(maxAge, refreshFn): the panic it raises and, if it raises none, the
\* Refresher it returns with the value it stored
New(m, f) ==
    IF m <= 0
    THEN [panic |-> MaxAgePanic, snaps |-> <<>>, cur |-> 0,
          maxAge |-> 0, refreshFn |-> "nil", staleWhileRefresh |-> FALSE]
    ELSE [panic |-> NoPanic, snaps |-> <<Sentinel>>, cur |-> 1,
          maxAge |-> m, refreshFn |-> f, staleWhileRefresh |-> FALSE]

Init ==
    /\ now \in Times
    /\ now = 1
    /\ \E m \in MaxAges, f \in Fns :
          /\ args = [maxAge |-> m, refreshFn |-> f]
          /\ panicked = New(m, f).panic
          /\ maxAge = New(m, f).maxAge
          /\ refreshFn = New(m, f).refreshFn
          /\ staleWhileRefresh = New(m, f).staleWhileRefresh
          /\ snaps = New(m, f).snaps
          /\ cur = New(m, f).cur
    /\ configured = FALSE
    /\ shared = FALSE
    /\ called = 0
    /\ began = 0
    /\ returned = {}
    /\ pc = [p \in Procs |-> "idle"]
    /\ val = [p \in Procs |-> 0]
    /\ newVal = [p \in Procs |-> 0]
    /\ err = [p \in Procs |-> "none"]
    /\ when = [p \in Procs |-> 0]
    /\ ret = [p \in Procs |-> NoPair]
    /\ path = [p \in Procs |-> "none"]
    /\ mine = [p \in Procs |-> 0]
    /\ retOld = [p \in Procs |-> FALSE]
    /\ retSnap = [p \in Procs |-> 0]
    /\ alone = [p \in Procs |-> FALSE]

\* the clock advances
Tick ==
    /\ Alive
    /\ now < MaxTime
    /\ now' = now + 1
    /\ UNCHANGED <<maxAge, staleWhileRefresh, shared, snaps, cur, called, began, returned>>
    /\ UNCHANGED <<local_vars, hist_vars, setup_vars>>

\* SetStaleWhileRefresh(v), during setup: it must not run concurrently with Load
SetStaleWhileRefresh(v) ==
    /\ Alive
    /\ ~shared
    /\ staleWhileRefresh' = v
    /\ configured' = TRUE
    /\ UNCHANGED <<now, maxAge, shared, snaps, cur, called, began, returned>>
    /\ UNCHANGED <<local_vars, hist_vars, args, refreshFn, panicked>>

\* Load, line 62: val := r.val.Load().(*value)
LoadRead(p) ==
    /\ Alive
    /\ pc[p] = "idle"
    /\ UNCHANGED setup_vars
    /\ shared' = TRUE
    /\ val' = [val EXCEPT ![p] = cur]
    /\ pc' = [pc EXCEPT ![p] = "switch"]
    /\ alone' = [q \in Procs |-> IF q = p THEN \A o \in Procs \ {p} : ~InLoad(o) ELSE FALSE]
    /\ UNCHANGED <<now, maxAge, staleWhileRefresh, snaps, cur, called, began, returned>>
    /\ UNCHANGED <<newVal, err, when, ret, path, mine, retOld, retSnap>>

\* Load, lines 63-72: the switch; the hit case returns val.val, val.err
LoadSwitch(p) ==
    /\ Alive
    /\ pc[p] = "switch"
    /\ path' = [path EXCEPT ![p] = LoadCase(val[p])]
    /\ CASE LoadCase(val[p]) = "hit" ->
              /\ ret' = [ret EXCEPT ![p] = Pair(val[p])]
              /\ retSnap' = [retSnap EXCEPT ![p] = val[p]]
              /\ retOld' = [retOld EXCEPT ![p] = Old(val[p])]
              /\ pc' = [pc EXCEPT ![p] = "done"]
         [] LoadCase(val[p]) = "stale" ->
              /\ pc' = [pc EXCEPT ![p] = "loadStale"]
              /\ UNCHANGED <<ret, retSnap, retOld>>
         [] OTHER ->
              /\ pc' = [pc EXCEPT ![p] = "loadFresh"]
              /\ UNCHANGED <<ret, retSnap, retOld>>
    /\ UNCHANGED <<shared_vars, val, newVal, err, when, mine, alone, setup_vars>>

\* r.refreshFn() is called: a nil func panics; otherwise refreshFn is
\* entered, counts the call and computes its value
EnterFn(p) ==
    IF CallsFn
    THEN /\ called' = called + 1
         /\ began' = now
         /\ newVal' = [newVal EXCEPT ![p] = called + 1]
         /\ mine' = [mine EXCEPT ![p] = @ + 1]
         /\ UNCHANGED panicked
    ELSE /\ panicked' = NilPanic
         /\ UNCHANGED <<called, began, newVal, mine>>

\* where the goroutine is after the call of r.refreshFn at label l
Called(l) == IF CallsFn THEN l ELSE "panic"

\* the invocations the call of r.refreshFn begins
Begun == IF CallsFn THEN 1 ELSE 0

\* refreshFn returns (newVal, err), and time.Now() is read for the new value
LeaveFn(p) ==
    /\ \E e \in Errs :
          /\ err' = [err EXCEPT ![p] = e]
          /\ returned' = returned \cup {[val |-> newVal[p], err |-> e]}
    /\ when' = [when EXCEPT ![p] = now]

\* loadFresh, line 76: val.refresh.Do runs the closure, which calls refreshFn
OnceDoRun(p) ==
    /\ Alive
    /\ pc[p] = "loadFresh"
    /\ OnceRuns(val[p])
    /\ snaps' = [snaps EXCEPT ![val[p]].refresh = "running", ![val[p]].runs = @ + Begun]
    /\ EnterFn(p)
    /\ pc' = [pc EXCEPT ![p] = Called("freshFn")]
    /\ UNCHANGED <<now, maxAge, staleWhileRefresh, shared, cur, returned>>
    /\ UNCHANGED <<args, refreshFn, configured>>
    /\ UNCHANGED <<val, err, when, ret, path, retOld, retSnap, alone>>

\* loadFresh, line 76: val.refresh.Do returns without running the closure
OnceDoPass(p) ==
    /\ Alive
    /\ pc[p] = "loadFresh"
    /\ OncePasses(val[p])
    /\ pc' = [pc EXCEPT ![p] = "reload"]
    /\ UNCHANGED <<shared_vars, val, newVal, err, when, ret, hist_vars>>
    /\ UNCHANGED setup_vars

\* loadFresh, line 77: refreshFn returns
FreshFnReturn(p) ==
    /\ Alive
    /\ pc[p] = "freshFn"
    /\ LeaveFn(p)
    /\ pc' = [pc EXCEPT ![p] = "freshStore"]
    /\ UNCHANGED <<now, maxAge, staleWhileRefresh, shared, snaps, cur, called, began>>
    /\ UNCHANGED <<val, newVal, ret, hist_vars, setup_vars>>

\* loadFresh, lines 78-79: the closure stores the new value and Do completes
FreshStore(p) ==
    /\ Alive
    /\ pc[p] = "freshStore"
    /\ snaps' = [Stored(p) EXCEPT ![val[p]].refresh = "done"]
    /\ cur' = Len(snaps) + 1
    /\ pc' = [pc EXCEPT ![p] = "reload"]
    /\ UNCHANGED <<now, maxAge, staleWhileRefresh, shared, called, began, returned>>
    /\ UNCHANGED <<val, newVal, err, when, ret, hist_vars, setup_vars>>

\* loadFresh, lines 81-82: val = r.val.Load(); return val.val, val.err
FreshReload(p) ==
    /\ Alive
    /\ pc[p] = "reload"
    /\ ret' = [ret EXCEPT ![p] = FreshPair(p)]
    /\ retSnap' = [retSnap EXCEPT ![p] = cur]
    /\ retOld' = [retOld EXCEPT ![p] = Old(cur)]
    /\ pc' = [pc EXCEPT ![p] = "done"]
    /\ UNCHANGED <<shared_vars, val, newVal, err, when, path, mine, alone, setup_vars>>

\* loadStale, lines 86-90: the compare-and-swap succeeds; refreshFn is called
StaleClaim(p) ==
    /\ Alive
    /\ pc[p] = "loadStale"
    /\ CASSucceeds(val[p])
    /\ snaps' = [snaps EXCEPT ![val[p]].refreshStale = 1, ![val[p]].runs = @ + Begun]
    /\ EnterFn(p)
    /\ pc' = [pc EXCEPT ![p] = Called("staleFn")]
    /\ UNCHANGED <<now, maxAge, staleWhileRefresh, shared, cur, returned>>
    /\ UNCHANGED <<args, refreshFn, configured>>
    /\ UNCHANGED <<val, err, when, ret, path, retOld, retSnap, alone>>

\* loadStale, lines 86-88: the compare-and-swap fails; return val.val, val.err
StaleLose(p) ==
    /\ Alive
    /\ pc[p] = "loadStale"
    /\ ~CASSucceeds(val[p])
    /\ ret' = [ret EXCEPT ![p] = StalePair(p)]
    /\ retSnap' = [retSnap EXCEPT ![p] = val[p]]
    /\ retOld' = [retOld EXCEPT ![p] = Old(val[p])]
    /\ pc' = [pc EXCEPT ![p] = "done"]
    /\ UNCHANGED <<shared_vars, val, newVal, err, when, path, mine, alone, setup_vars>>

\* loadStale, line 90: refreshFn returns
StaleFnReturn(p) ==
    /\ Alive
    /\ pc[p] = "staleFn"
    /\ LeaveFn(p)
    /\ pc' = [pc EXCEPT ![p] = "staleStore"]
    /\ UNCHANGED <<now, maxAge, staleWhileRefresh, shared, snaps, cur, called, began>>
    /\ UNCHANGED <<val, newVal, ret, hist_vars, setup_vars>>

\* loadStale, lines 91-92: store the new value; return newVal, err
StaleStore(p) ==
    /\ Alive
    /\ pc[p] = "staleStore"
    /\ snaps' = Stored(p)
    /\ cur' = Len(snaps) + 1
    /\ ret' = [ret EXCEPT ![p] = [val |-> newVal[p], err |-> err[p]]]
    /\ retSnap' = [retSnap EXCEPT ![p] = Len(snaps) + 1]
    /\ retOld' = [retOld EXCEPT ![p] = now - when[p] > maxAge]
    /\ pc' = [pc EXCEPT ![p] = "done"]
    /\ UNCHANGED <<now, maxAge, staleWhileRefresh, shared, called, began, returned>>
    /\ UNCHANGED <<val, newVal, err, when, path, mine, alone, setup_vars>>

\* Load has returned; the goroutine goes on to whatever it does next
LoadReturn(p) ==
    /\ Alive
    /\ pc[p] = "done"
    /\ pc' = [pc EXCEPT ![p] = "idle"]
    /\ val' = [val EXCEPT ![p] = 0]
    /\ newVal' = [newVal EXCEPT ![p] = 0]
    /\ err' = [err EXCEPT ![p] = "none"]
    /\ when' = [when EXCEPT ![p] = 0]
    /\ ret' = [ret EXCEPT ![p] = NoPair]
    /\ path' = [path EXCEPT ![p] = "none"]
    /\ mine' = [mine EXCEPT ![p] = 0]
    /\ retOld' = [retOld EXCEPT ![p] = FALSE]
    /\ retSnap' = [retSnap EXCEPT ![p] = 0]
    /\ alone' = [alone EXCEPT ![p] = FALSE]
    /\ UNCHANGED <<shared_vars, setup_vars>>

Next ==
    \/ Tick
    \/ \E v \in BOOLEAN : SetStaleWhileRefresh(v)
    \/ \E p \in Procs : LoadRead(p)
    \/ \E p \in Procs : LoadSwitch(p)
    \/ \E p \in Procs : OnceDoRun(p)
    \/ \E p \in Procs : OnceDoPass(p)
    \/ \E p \in Procs : FreshFnReturn(p)
    \/ \E p \in Procs : FreshStore(p)
    \/ \E p \in Procs : FreshReload(p)
    \/ \E p \in Procs : StaleClaim(p)
    \/ \E p \in Procs : StaleLose(p)
    \/ \E p \in Procs : StaleFnReturn(p)
    \/ \E p \in Procs : StaleStore(p)
    \/ \E p \in Procs : LoadReturn(p)

Spec == Init /\ [][Next]_vars

\* ------------------------------------------------------------------ claims

Done(p) == pc[p] = "done"

\* a snapshot that some refreshFn invocation computed (not the sentinel)
Computed(i) == i \in 2..Len(snaps)

\* C1: any two invocations of refreshFn are more than maxAge apart: once the
\* second or a later invocation has begun, the invocation before it has
\* published its snapshot, and the latest invocation began at a time strictly
\* greater than that snapshot's timestamp plus maxAge.
C1_OncePerMaxAge ==
    called >= 2 =>
        \E i \in 2..Len(snaps) :
            /\ snaps[i].by = called - 1
            /\ began > snaps[i].when + maxAge

\* C1 witness: a second invocation has begun at the earliest time allowed
C1_Witness ==
    /\ called = 2
    /\ \E p \in Procs : InFn(p)
    /\ began = snaps[2].when + maxAge + 1

\* C2: at most one invocation of refreshFn is in flight, under either policy.
C2_SingleFlight == Cardinality({p \in Procs : InFn(p)}) <= 1

\* C2 witness: one goroutine is inside refreshFn while another has read the
\* same stale snapshot and stands at the gate or the claim
C2_Witness ==
    \E p, q \in Procs :
        /\ InFn(p)
        /\ pc[q] \in {"loadFresh", "loadStale"}
        /\ val[q] = val[p]
        /\ Computed(val[p])

\* C3: blocking policy: of the callers that found the same snapshot S stale
\* (or never computed), exactly one invocation of refreshFn is made on behalf
\* of S, and every caller returns the pair of a snapshot published after S
\* (S's successor, unless that one has been refreshed in turn), never S's.
C3_BlockingAllFresh ==
    ~staleWhileRefresh =>
        /\ \A i \in 1..Len(snaps) : snaps[i].runs <= 1
        /\ \A p \in Procs :
              (pc[p] \in {"reload", "done"} /\ path[p] = "fresh") =>
                  /\ snaps[val[p]].runs = 1
                  /\ snaps[val[p]].refresh = "done"
        /\ \A p \in Procs :
              (Done(p) /\ path[p] = "fresh") =>
                  /\ retSnap[p] > val[p]
                  /\ ret[p] = Pair(retSnap[p])
                  /\ ret[p] # Pair(val[p])
                  /\ retSnap[p] = val[p] + 1 \/ snaps[val[p] + 1].runs = 1

\* C3 witness: two callers found the same computed snapshot stale; one ran
\* refreshFn, the other waited, and both have returned
C3_Witness ==
    /\ ~staleWhileRefresh
    /\ \E p, q \in Procs :
          /\ Done(p) /\ Done(q)
          /\ path[p] = "fresh" /\ path[q] = "fresh"
          /\ val[p] = val[q] /\ Computed(val[p])
          /\ mine[p] = 1 /\ mine[q] = 0

\* C4: stale-while-refresh policy: of the callers that found the same
\* computed snapshot S stale, exactly one wins the claim flag of S; refreshFn
\* is invoked once on behalf of S; the winner returns the pair it computed
\* and every other caller returns S's pair.
C4_StaleOneWinner ==
    staleWhileRefresh =>
        /\ \A i \in 1..Len(snaps) : snaps[i].runs <= 1
        /\ \A p \in Procs :
              (pc[p] \in {"staleFn", "staleStore", "done"} /\ path[p] = "stale") =>
                  /\ Computed(val[p])
                  /\ snaps[val[p]].runs = 1
                  /\ snaps[val[p]].refreshStale = 1
        /\ \A p \in Procs :
              (Done(p) /\ path[p] = "stale") =>
                  IF mine[p] = 1
                  THEN /\ ret[p] = [val |-> newVal[p], err |-> err[p]]
                       /\ Computed(retSnap[p]) /\ retSnap[p] > val[p]
                       /\ snaps[retSnap[p]].by = newVal[p]
                       /\ ret[p] = Pair(retSnap[p])
                  ELSE /\ mine[p] = 0
                       /\ retSnap[p] = val[p]
                       /\ ret[p] = Pair(val[p])
        /\ \A p, q \in Procs :
              (p # q /\ path[p] = "stale" /\ path[q] = "stale" /\ val[p] = val[q]) =>
                  mine[p] + mine[q] <= 1

\* C4 witness: two callers found the same computed snapshot stale; one has
\* returned the new pair and the other the stale one
C4_Witness ==
    /\ staleWhileRefresh
    /\ \E p, q \in Procs :
          /\ Done(p) /\ Done(q)
          /\ path[p] = "stale" /\ path[q] = "stale"
          /\ val[p] = val[q]
          /\ mine[p] = 1 /\ mine[q] = 0
          /\ ret[p] # ret[q]

\* C5: blocking policy: no Load returns stale data: the snapshot whose pair a
\* Load returns is at most maxAge old at the moment the Load reads it for
\* return.
C5_NeverStale ==
    ~staleWhileRefresh => \A p \in Procs : Done(p) => ~retOld[p]

\* C6: first load, either policy: refreshFn is invoked once on behalf of the
\* never computed snapshot, through its sync.Once; every Load that read it
\* takes the blocking path, gets past the gate only after the closure has
\* completed, and returns a computed pair (that of the first invocation,
\* unless its snapshot has been refreshed in turn); no Load at all returns the
\* pair of the never computed snapshot.
C6_FirstLoad ==
    panicked # MaxAgePanic =>
    /\ snaps[1].runs <= 1
    /\ snaps[1].refreshStale = 0
    /\ \A p \in Procs :
          (val[p] = 1 /\ pc[p] # "switch") =>
              /\ path[p] = "fresh"
              /\ pc[p] \in {"reload", "done"} =>
                    /\ snaps[1].refresh = "done"
                    /\ snaps[1].runs = 1
              /\ Done(p) =>
                    /\ ret[p] = Pair(retSnap[p])
                    /\ retSnap[p] = 2 \/ snaps[2].runs = 1
    /\ \A p \in Procs :
          Done(p) =>
              /\ Computed(retSnap[p])
              /\ ret[p] # Pair(1)
              /\ ret[p] \in returned

\* C6 witness: under stale-while-refresh, two callers read the never computed
\* snapshot; one ran refreshFn, the other waited, both returned its result
C6_Witness ==
    /\ staleWhileRefresh
    /\ called = 1
    /\ \E p, q \in Procs :
          /\ Done(p) /\ Done(q)
          /\ val[p] = 1 /\ val[q] = 1
          /\ mine[p] = 1 /\ mine[q] = 0
          /\ ret[p] = ret[q] /\ ret[p].val = 1

\* the step in which goroutine p evaluates the switch of Load
SwitchStep(p) == pc[p] = "switch" /\ pc'[p] # "switch"

\* C7: cache hit: a Load that evaluates the switch for a computed snapshot of
\* age <= maxAge (age = maxAge included) returns that snapshot's pair in that
\* step, and the step invokes nothing and changes nothing shared: no snapshot,
\* gate or claim flag, not the current value.
C7_CacheHit ==
    [][\A p \in Procs :
          (/\ SwitchStep(p)
           /\ Computed(val[p])
           /\ now - snaps[val[p]].when <= maxAge) =>
              /\ pc'[p] = "done"
              /\ ret'[p] = Pair(val[p])
              /\ mine'[p] = 0
              /\ UNCHANGED <<snaps, cur, called, returned>>]_vars

\* C7 witness: a Load has returned on the hit path for a snapshot whose age
\* is exactly maxAge
C7_Witness ==
    \E p \in Procs :
        /\ Done(p) /\ path[p] = "hit"
        /\ now - snaps[retSnap[p]].when = maxAge
        /\ ret[p] = Pair(cur)

\* the step in which goroutine p stores the value it built
StoreStep(p) == pc[p] \in {"freshStore", "staleStore"} /\ pc'[p] # pc[p]

\* C8: error caching: a refreshFn result with an error is published like any
\* other (same value, same error, the time read after refreshFn returned) and
\* becomes the current value; while that value is current and at most maxAge
\* old, no step invokes refreshFn or replaces it, and a Load that evaluates
\* its age returns its error and value.
C8_ErrorCached ==
    [][/\ \A p \in Procs :
            (StoreStep(p) /\ err[p] = "error") =>
                /\ cur' = Len(snaps) + 1
                /\ Len(snaps') = Len(snaps) + 1
                /\ snaps'[cur'].val = newVal[p]
                /\ snaps'[cur'].err = "error"
                /\ snaps'[cur'].when = when[p]
       /\ (snaps[cur].err = "error" /\ now - snaps[cur].when <= maxAge) =>
                /\ called' = called
                /\ cur' = cur
                /\ \A p \in Procs :
                      (pc[p] = "idle" /\ pc'[p] = "switch") => val'[p] = cur
                /\ \A p \in Procs :
                      (SwitchStep(p) /\ val[p] = cur) =>
                          /\ pc'[p] = "done"
                          /\ ret'[p] = [val |-> snaps[cur].val, err |-> "error"]]_vars

\* C8 witness: a failed refresh replaced a good value, and a Load within the
\* following maxAge has returned the cached error
C8_Witness ==
    /\ cur >= 3
    /\ snaps[cur - 1].err = "nil"
    /\ snaps[cur].err = "error"
    /\ \E p \in Procs :
          /\ Done(p) /\ path[p] = "hit"
          /\ retSnap[p] = cur
          /\ ret[p].err = "error"
          /\ called = snaps[cur].by

\* what a Load that ran alone and found a computed snapshot stale has done
C9_Refreshed(p) ==
    /\ mine[p] = 1
    /\ snaps[val[p]].runs = 1
    /\ cur = Len(snaps)
    /\ retSnap[p] = cur
    /\ cur > val[p]
    /\ snaps[cur].by = newVal[p]
    /\ ret[p] = Pair(cur)
    /\ ret[p] = [val |-> newVal[p], err |-> err[p]]
    /\ ret[p] # Pair(val[p])

\* C9: staleness triggers recomputation: a Load that evaluates the switch for
\* a computed snapshot older than maxAge goes to refresh it, under either
\* policy; if no other Load is in flight meanwhile, it invokes refreshFn
\* once, publishes the result as the current value and returns the new pair.
C9_StaleRefresh ==
    /\ [][\A p \in Procs :
             (SwitchStep(p) /\ Computed(val[p]) /\ now - snaps[val[p]].when > maxAge) =>
                 /\ pc'[p] = (IF staleWhileRefresh THEN "loadStale" ELSE "loadFresh")
                 /\ path'[p] # "hit"]_vars
    /\ [](\A p \in Procs :
             (Done(p) /\ alone[p] /\ Computed(val[p]) /\ path[p] # "hit") =>
                 C9_Refreshed(p))

\* C9 witness: under stale-while-refresh a Load that ran alone has refreshed
\* a stale computed snapshot and returned the new pair
C9_Witness ==
    \E p \in Procs :
        /\ staleWhileRefresh
        /\ Done(p) /\ alone[p] /\ path[p] = "stale"
        /\ Computed(val[p])
        /\ C9_Refreshed(p)

\* C10: pure passthrough: the pair a Load returns is a pair that a completed
\* refreshFn invocation returned, value and error together.
C10_Passthrough ==
    \A p \in Procs : Done(p) => ret[p] \in returned

\* C10 witness: a Load has returned an error together with its value
C10_Witness ==
    \E p \in Procs :
        /\ Done(p)
        /\ ret[p].err = "error"
        /\ ret[p].val = 2
        /\ [val |-> 1, err |-> "nil"] \in returned

\* the steps of Load that goroutine p takes once it has read r.val
StepOf(p) ==
    \/ LoadSwitch(p)
    \/ OnceDoRun(p) \/ OnceDoPass(p) \/ FreshFnReturn(p) \/ FreshStore(p) \/ FreshReload(p)
    \/ StaleClaim(p) \/ StaleLose(p) \/ StaleFnReturn(p) \/ StaleStore(p)

\* goroutine p is in Load, is not running refreshFn itself, and is at (or
\* bound for) a run-once gate that another goroutine's closure holds
Waits(p) ==
    /\ Alive
    /\ \/ pc[p] = "loadFresh"
       \/ pc[p] = "switch" /\ LoadCase(val[p]) = "fresh"
    /\ ~OnceRuns(val[p])
    /\ ~OncePasses(val[p])

\* C11 as stated: under stale-while-refresh no Load ever waits for another
\* caller's refreshFn invocation.
C11_NeverBlocks ==
    staleWhileRefresh => \A p \in Procs : ~Waits(p)

\* C11 as amended: under stale-while-refresh a Load that read a computed
\* snapshot never waits: at every point of it the goroutine has a step of
\* its own to take, and it never stands at a gate that another holds; only a
\* Load that read the never computed snapshot waits, at that snapshot's gate.
C11_OnlyFirstLoadBlocks ==
    staleWhileRefresh =>
        \A p \in Procs :
            /\ Waits(p) => IsZero(val[p])
            /\ (Alive /\ InLoad(p) /\ Computed(val[p])) =>
                  /\ ENABLED StepOf(p)
                  /\ pc[p] \notin {"loadFresh", "freshFn", "freshStore", "reload"}

\* C11 witness: a Load has lost the claim and returned the stale pair while
\* the winner is still inside refreshFn
C11_Witness ==
    /\ staleWhileRefresh
    /\ \E p, q \in Procs :
          /\ pc[p] = "staleFn"
          /\ Done(q) /\ path[q] = "stale" /\ mine[q] = 0
          /\ val[q] = val[p] /\ cur = val[p]

\* C12: refreshFn is only invoked inside a Load, by the goroutine running
\* that Load: until the first Load begins nothing has been invoked or
\* published (New and SetStaleWhileRefresh do neither); every step that
\* begins an invocation is a step of a goroutine inside loadFresh or
\* loadStale, every step that publishes a value is the store of a goroutine
\* that ran refreshFn in its Load, and the clock and SetStaleWhileRefresh
\* invoke and publish nothing.
C12_OnlyInLoad ==
    /\ []((Alive /\ ~shared) =>
            /\ called = 0 /\ returned = {}
            /\ cur = 1 /\ Len(snaps) = 1 /\ IsZero(1))
    /\ [][
          /\ called' # called =>
                \E p \in Procs :
                    /\ pc[p] \in {"loadFresh", "loadStale"}
                    /\ pc'[p] \in {"freshFn", "staleFn"}
                    /\ called' = called + 1
                    /\ newVal'[p] = called'
                    /\ mine'[p] = 1
          /\ (cur' # cur \/ Len(snaps') # Len(snaps)) =>
                \E q \in Procs :
                    /\ pc[q] \in {"freshStore", "staleStore"}
                    /\ pc'[q] \in {"reload", "done"}
                    /\ mine[q] = 1
                    /\ Len(snaps') = Len(snaps) + 1
                    /\ cur' = Len(snaps')
                    /\ snaps'[cur'].by = newVal[q]
          /\ (now' # now \/ staleWhileRefresh' # staleWhileRefresh \/ configured' # configured) =>
                UNCHANGED <<called, returned, cur, snaps, pc>>
       ]_vars

\* C12 witness: the first invocation is in flight, begun by a goroutine in
\* its Load, and nothing has been published yet
C12_Witness ==
    /\ shared /\ configured
    /\ called = 1 /\ cur = 1 /\ Len(snaps) = 1
    /\ \E p \in Procs : InFn(p) /\ mine[p] = 1 /\ newVal[p] = 1

\* C13: construction validation.  New with maxAge = 0 or maxAge < 0 panics
\* with "refresh: maxAge must be positive duration" and yields no Refresher:
\* there is no value to load, nothing is ever loaded, configured or
\* invoked.  New with maxAge > 0 does not raise that panic and yields a
\* Refresher holding the given maxAge, whose current value, until it is
\* configured or loaded, is the never-computed one with the blocking policy.
C13_Construction ==
    /\ args.maxAge <= 0 =>
          /\ panicked = MaxAgePanic
          /\ snaps = <<>> /\ cur = 0
          /\ ~shared /\ ~configured /\ called = 0 /\ returned = {}
          /\ \A p \in Procs : pc[p] = "idle"
    /\ args.maxAge > 0 =>
          /\ panicked # MaxAgePanic
          /\ maxAge = args.maxAge /\ refreshFn = args.refreshFn
          /\ cur \in 1..Len(snaps)
          /\ IsZero(1)
          /\ (~shared /\ ~configured) =>
                /\ cur = 1 /\ snaps = <<Sentinel>>
                /\ staleWhileRefresh = FALSE

\* C13 witness: New(0, f) has panicked
C13_Witness ==
    /\ args.maxAge = 0 /\ panicked = MaxAgePanic /\ cur = 0

\* New(-1, f) has panicked
C13_WitnessNegative ==
    /\ args.maxAge < 0 /\ panicked = MaxAgePanic /\ cur = 0

\* New(1, f) returned a Refresher that is now in use
C13_WitnessPositive ==
    /\ args.maxAge > 0 /\ Alive /\ shared /\ cur = 2 /\ IsZero(1)

LoseStep(p) == pc[p] = "loadStale" /\ pc'[p] = "done"

\* C15, as stated: a caller that loses the claim race returns the pair of
\* the snapshot that is current at the moment it returns.
C15_LoserReturnsCurrent ==
    [][\A p \in Procs : LoseStep(p) => ret'[p] = Pair(cur)]_vars

\* C15, amended: a caller that loses the claim race returns, in that very
\* step and without waiting for anyone, the pair of the snapshot S it read
\* at the start of its Load: S is computed and claimed, the step invokes
\* nothing and publishes nothing, and S need no longer be current (when the
\* winner has already published S's replacement the loser still returns
\* S's pair, which is not the current one).  A caller in loadStale can
\* always take its step.
C15_LoserReturnsRead ==
    /\ []((Alive /\ \E p \in Procs : pc[p] = "loadStale") =>
            \A p \in Procs : pc[p] = "loadStale" =>
                /\ Computed(val[p]) /\ val[p] <= cur
                /\ ENABLED (StaleClaim(p) \/ StaleLose(p)))
    /\ [][\A p \in Procs : LoseStep(p) =>
            /\ snaps[val[p]].refreshStale = 1
            /\ ret'[p] = Pair(val[p])
            /\ retSnap'[p] = val[p]
            /\ mine'[p] = 0
            /\ val[p] < cur => ret'[p] # Pair(cur)
            /\ UNCHANGED <<snaps, cur, called, returned>>
         ]_vars

\* C15 witness: a delayed loser has returned the pair of the snapshot it
\* read after the winner had published the replacement
C15_Witness ==
    /\ staleWhileRefresh
    /\ \E p \in Procs :
          /\ Done(p) /\ path[p] = "stale" /\ mine[p] = 0
          /\ retSnap[p] = val[p] /\ val[p] < cur
          /\ ret[p] = Pair(val[p]) /\ ret[p] # Pair(cur)

\* the goroutines are scheduled fairly and every call of refreshFn returns:
\* a goroutine inside Load that can take its next step eventually takes it
LiveSpec == Spec /\ \A p \in Procs : WF_vars(StepOf(p))

\* a Load that cannot take its next step
Parked(p) == Alive /\ InLoad(p) /\ ~ENABLED StepOf(p)

\* C16: termination.  With a refreshFn that returns and fair scheduling,
\* every Load that has begun eventually returns, under either policy.  The
\* only place a Load can wait is the sync.Once of the value it read, in
\* loadFresh, and only while another goroutine is inside that Once and has
\* not yet stored its value; once the value is stored the Once is done, a
\* newer value is current and the waiter can go on.
C16_Termination ==
    /\ \A p \in Procs : (CallsFn /\ InLoad(p)) ~> Done(p)
    /\ [](\A p \in Procs :
            /\ Parked(p) =>
                  /\ pc[p] = "loadFresh"
                  /\ snaps[val[p]].refresh = "running"
                  /\ cur = val[p]
                  /\ \E q \in Procs :
                        /\ q # p /\ val[q] = val[p] /\ mine[q] = 1
                        /\ pc[q] \in {"freshFn", "freshStore"}
            /\ (Alive /\ pc[p] = "loadFresh" /\ snaps[val[p]].refresh = "done") =>
                  /\ cur > val[p]
                  /\ ENABLED OnceDoPass(p))

\* C16 witness: a caller that was parked on the Once of a stale computed
\* value has been released and has returned the winner's value
C16_Witness ==
    /\ ~staleWhileRefresh
    /\ \E p, q \in Procs :
          /\ p # q /\ val[p] = val[q] /\ Computed(val[p])
          /\ Done(p) /\ path[p] = "fresh" /\ mine[p] = 0
          /\ mine[q] = 1 /\ pc[q] \in {"reload", "done"}
          /\ retSnap[p] > val[p]

\* a goroutine is between the call of refreshFn and the store of its result
Refreshing(p) == pc[p] \in {"freshFn", "staleFn", "freshStore", "staleStore"}

\* C17: refreshFn is never invoked speculatively.  From the call of
\* refreshFn until the store of its result the current value is the very
\* value the invoker read, which is the never-computed one or one older than
\* maxAge, and nobody else is invoking; every value after the first was
\* stored by its own invocation, in order, so the values published are as
\* many as the invocations completed; and the current value changes only
\* by the store of the goroutine that invoked refreshFn on its behalf.
C17_NeverSpeculative ==
    /\ [](panicked # MaxAgePanic =>
            /\ \A p \in Procs : Refreshing(p) =>
                  /\ cur = val[p]
                  /\ mine[p] = 1
                  /\ IsZero(cur) \/ Old(cur)
                  /\ \A q \in Procs : Refreshing(q) => q = p
            /\ \A i \in 2..Len(snaps) : snaps[i].by = i - 1
            /\ called = (Len(snaps) - 1) + Cardinality({p \in Procs : Refreshing(p)}))
    /\ [][
          /\ called' # called =>
                \E p \in Procs :
                    /\ ~Refreshing(p) /\ pc'[p] \in {"freshFn", "staleFn"}
                    /\ val[p] = cur /\ cur' = cur
                    /\ IsZero(cur) \/ Old(cur)
          /\ cur' # cur =>
                \E p \in Procs :
                    /\ pc[p] \in {"freshStore", "staleStore"}
                    /\ val[p] = cur
                    /\ cur' = Len(snaps) + 1
                    /\ snaps'[cur'].by = newVal[p]
                    /\ pc'[p] \in {"reload", "done"}
       ]_vars

\* C17 witness: the second invocation has returned and is about to be
\* stored while the value its invoker read is still the current one, and
\* another goroutine that read the same value has returned its pair
C17_Witness ==
    \E p, q \in Procs :
        /\ pc[p] = "staleStore" /\ newVal[p] = 2 /\ cur = val[p] /\ cur = 2
        /\ Done(q) /\ val[q] = val[p] /\ mine[q] = 0

\* C18: immutability.  A Refresher always has a current value, the
\* never-computed one from New on; the val, err and when of a value that
\* was ever stored are the same in every later state; r.val changes only
\* by one store of a newly built value (unused Once, clear flag, fields
\* those of the storing goroutine's result), and every new value becomes
\* current in the step that builds it.
C18_Immutable ==
    /\ [](panicked # MaxAgePanic =>
            /\ cur \in 1..Len(snaps)
            /\ IsZero(1) /\ Pair(1) = [val |-> 0, err |-> "nil"]
            /\ \A i \in 2..Len(snaps) : ~IsZero(i))
    /\ [][
          /\ Len(snaps') >= Len(snaps)
          /\ \A i \in 1..Len(snaps) :
                /\ snaps'[i].val = snaps[i].val
                /\ snaps'[i].err = snaps[i].err
                /\ snaps'[i].when = snaps[i].when
          /\ (cur' # cur \/ Len(snaps') # Len(snaps)) =>
                /\ Len(snaps') = Len(snaps) + 1
                /\ cur' = Len(snaps')
                /\ \E p \in Procs :
                      snaps'[cur'] = value(newVal[p], err[p], when[p], newVal[p])
       ]_vars

\* C18 witness: a Load has returned the pair of the second value, which a
\* third has since replaced, and the second value still holds that pair
C18_Witness ==
    /\ cur = 3
    /\ \E p \in Procs :
          /\ Done(p) /\ retSnap[p] = 2
          /\ ret[p] = Pair(2) /\ ret[p] \in returned
          /\ Pair(2) # Pair(3)

\* the step in which p begins a Load by reading r.val
BeginStep(p) == pc[p] = "idle" /\ pc'[p] # "idle"

\* C19: results never go backwards.  The values are ordered by publication
\* (a later one comes from a later invocation and carries a later time) and
\* r.val only moves forward.  A Load returns the pair of a value no older
\* than the one it read when it began and no newer than the current one;
\* a Load that begins reads a value no older than the one any returned Load
\* has returned.  Hence a Load that begins after another has returned
\* returns the pair of the same or of a later value.
C19_Monotonic ==
    /\ [](panicked # MaxAgePanic =>
            /\ \A i, j \in 1..Len(snaps) :
                  i < j => /\ snaps[i].by < snaps[j].by
                           /\ snaps[i].when <= snaps[j].when
            /\ \A p \in Procs :
                  /\ InLoad(p) => val[p] \in 1..cur
                  /\ Done(p) =>
                        /\ val[p] <= retSnap[p] /\ retSnap[p] <= cur
                        /\ ret[p] = Pair(retSnap[p]))
    /\ [][
          /\ cur' >= cur
          /\ \A p \in Procs : BeginStep(p) =>
                /\ val'[p] = cur
                /\ \A q \in Procs : Done(q) => retSnap[q] <= val'[p]
          /\ \A p \in Procs : (InLoad(p) /\ pc'[p] # "idle") => val'[p] = val[p]
       ]_vars

\* C19 witness: one Load has returned the pair of the second value; another
\* Load, which read that second value when it began, has returned the pair
\* of the third
C19_Witness ==
    \E p, q \in Procs :
        /\ Done(q) /\ retSnap[q] = 2
        /\ Done(p) /\ val[p] = 2 /\ retSnap[p] = 3
        /\ ret[p] # ret[q]

\* C20: no stuck refresh, for a refreshFn that returns.  Whenever the
\* sync.Once of the current value has been entered or its refreshStale flag
\* is set, the goroutine that took it is still in its Load, between the call
\* of refreshFn and the store of the replacement; the Once of the current
\* value is never complete (completion and replacement are one store).  So
\* when no Load is in flight the current value has an unused Once and a
\* clear flag.
C20_NoStuckRefresh ==
    (panicked # MaxAgePanic /\ CallsFn) =>
        /\ cur \in 1..Len(snaps)
        /\ snaps[cur].refresh # "done"
        /\ (snaps[cur].refresh # "idle" \/ snaps[cur].refreshStale = 1) =>
              \E p \in Procs :
                  /\ Refreshing(p) /\ val[p] = cur /\ mine[p] = 1
                  /\ ENABLED StepOf(p)
        /\ (\A p \in Procs : ~InLoad(p)) =>
              /\ snaps[cur].refresh = "idle"
              /\ snaps[cur].refreshStale = 0

\* C20 witness: the flag of the current value is set, its taker is inside
\* refreshFn, and the only other goroutine has lost the claim and returned
C20_Witness ==
    \E p \in Procs :
        /\ pc[p] = "staleFn" /\ val[p] = cur /\ Computed(cur)
        /\ snaps[cur].refreshStale = 1
        /\ \A q \in Procs \ {p} : Done(q) /\ val[q] = cur /\ mine[q] = 0

\* no Load is in flight after two refreshes, and the current value is free
C20_WitnessQuiet ==
    /\ cur = 3 /\ called = 2
    /\ \A p \in Procs : ~InLoad(p)
    /\ snaps[cur].refresh = "idle" /\ snaps[cur].refreshStale = 0

====
